---- MODULE Spec2Model ----
(***************************************************************************)
(* A model of txt_to_scad.py: the conversion of a text listing of 2D       *)
(* points into an OpenSCAD array literal, and its command-line entry.      *)
(*                                                                         *)
(* A text (a path, a variable name, a line, a file's content) is a         *)
(* sequence of one-character strings, so that strip, split, the substring  *)
(* test, float() and the .6f format are computed character by character.   *)
(***************************************************************************)
EXTENDS Integers, Sequences, FiniteSets, TLC

\* ------------------------------------------------------------------ bounds

\* The most lines a source file holds in the initial states.
MaxLines == 2

\* ------------------------------------------------------------ text helpers

NL == "\n"

\* The characters str.strip() and str.split() treat as whitespace.
Whitespace == {" ", "\t", NL}

Digits == {"0", "1", "2", "3", "4", "5", "6", "7", "8", "9"}

DigitVal(c) ==
    CASE c = "0" -> 0 [] c = "1" -> 1 [] c = "2" -> 2 [] c = "3" -> 3
      [] c = "4" -> 4 [] c = "5" -> 5 [] c = "6" -> 6 [] c = "7" -> 7
      [] c = "8" -> 8 [] c = "9" -> 9

DigitChar(d) ==
    CASE d = 0 -> "0" [] d = 1 -> "1" [] d = 2 -> "2" [] d = 3 -> "3"
      [] d = 4 -> "4" [] d = 5 -> "5" [] d = 6 -> "6" [] d = 7 -> "7"
      [] d = 8 -> "8" [] d = 9 -> "9"

RECURSIVE Pow10(_)
Pow10(k) == IF k = 0 THEN 1 ELSE 10 * Pow10(k - 1)

\* s[from..]: the suffix of s that starts at index from.
Drop(s, from) == SubSeq(s, from, Len(s))

\* str.startswith(p)
StartsWith(s, p) == Len(s) >= Len(p) /\ SubSeq(s, 1, Len(p)) = p

\* sub in s
Contains(s, sub) ==
    \E i \in 1..(Len(s) - Len(sub) + 1) : SubSeq(s, i, i + Len(sub) - 1) = sub

RECURSIVE LStrip(_)
LStrip(s) ==
    IF s # <<>> /\ Head(s) \in Whitespace THEN LStrip(Tail(s)) ELSE s

RECURSIVE RStrip(_)
RStrip(s) ==
    IF s # <<>> /\ s[Len(s)] \in Whitespace
    THEN RStrip(SubSeq(s, 1, Len(s) - 1))
    ELSE s

\* str.strip(): leading and trailing whitespace removed.
Strip(s) == RStrip(LStrip(s))

\* str.replace(',', ' ')
ReplaceCommas(s) == [i \in 1..Len(s) |-> IF s[i] = "," THEN " " ELSE s[i]]

\* The length of the longest prefix of s free of whitespace.
RECURSIVE WordLen(_)
WordLen(s) ==
    IF s = <<>> \/ Head(s) \in Whitespace THEN 0 ELSE 1 + WordLen(Tail(s))

\* str.split(): the maximal runs of non-whitespace characters, in order.
RECURSIVE Split(_)
Split(s) ==
    LET t == LStrip(s)
    IN  IF t = <<>> THEN <<>>
        ELSE <<SubSeq(t, 1, WordLen(t))>> \o Split(Drop(t, WordLen(t) + 1))

\* sep.join(items)
RECURSIVE Join(_, _)
Join(sep, items) ==
    IF items = <<>> THEN <<>>
    ELSE IF Len(items) = 1 THEN items[1]
    ELSE items[1] \o sep \o Join(sep, Tail(items))

\* The position of the first line break of s, 0 when it has none.
RECURSIVE NLPos(_)
NLPos(s) ==
    IF s = <<>> THEN 0
    ELSE IF Head(s) = NL THEN 1
    ELSE LET r == NLPos(Tail(s)) IN IF r = 0 THEN 0 ELSE r + 1

\* Iterating a text file: its lines in order, each with its line break, the
\* last one without when the content does not end in one.
RECURSIVE IterLines(_)
IterLines(content) ==
    IF content = <<>> THEN <<>>
    ELSE LET p == NLPos(content)
         IN  IF p = 0 THEN <<content>>
             ELSE <<SubSeq(content, 1, p)>> \o IterLines(Drop(content, p + 1))

\* ------------------------------------------------------------------ float

\* A parsed token: kind "fin" is (-1)^neg * mant * 10^exp, "inf" and "nan"
\* the special values, "ValueError" a token float() refuses.
FloatVal(kind, neg, mant, exp) ==
    [kind |-> kind, neg |-> neg, mant |-> mant, exp |-> exp]

ValueError == FloatVal("ValueError", FALSE, 0, 0)

IsDigits(s) == \A i \in 1..Len(s) : s[i] \in Digits

RECURSIVE ToNat(_)
ToNat(s) ==
    IF s = <<>> THEN 0
    ELSE 10 * ToNat(SubSeq(s, 1, Len(s) - 1)) + DigitVal(s[Len(s)])

RECURSIVE NumDigits(_)
NumDigits(n) == IF n < 10 THEN 1 ELSE 1 + NumDigits(n \div 10)

\* The position of the first c of s, 0 when it has none.
RECURSIVE PosOf(_, _)
PosOf(s, c) ==
    IF s = <<>> THEN 0
    ELSE IF Head(s) = c THEN 1
    ELSE LET r == PosOf(Tail(s), c) IN IF r = 0 THEN 0 ELSE r + 1

\* The largest decimal exponent of a finite double (1.797e308).
MaxDecimalExp == 308

\* float() on an unsigned decimal literal: digits with an optional point and
\* an optional exponent; at least one digit in the mantissa.
ParseDecimal(neg, body) ==
    LET e     == PosOf(body, "e")
        m     == IF e = 0 THEN body ELSE SubSeq(body, 1, e - 1)
        x     == IF e = 0 THEN <<>> ELSE Drop(body, e + 1)
        xsign == x # <<>> /\ x[1] \in {"+", "-"}
        xdig  == IF xsign THEN Tail(x) ELSE x
        p     == PosOf(m, ".")
        ipart == IF p = 0 THEN m ELSE SubSeq(m, 1, p - 1)
        fpart == IF p = 0 THEN <<>> ELSE Drop(m, p + 1)
        ok    == /\ IsDigits(ipart) /\ IsDigits(fpart)
                 /\ Len(ipart) + Len(fpart) > 0
                 /\ (e # 0 => (xdig # <<>> /\ IsDigits(xdig)))
        xval  == IF xsign /\ x[1] = "-" THEN 0 - ToNat(xdig) ELSE ToNat(xdig)
        mant  == ToNat(ipart \o fpart)
        exp   == xval - Len(fpart)
    IN  IF ~ok THEN ValueError
        ELSE IF mant = 0 THEN FloatVal("fin", neg, 0, 0)
        ELSE IF NumDigits(mant) + exp - 1 > MaxDecimalExp
             THEN FloatVal("inf", neg, 0, 0)
        ELSE FloatVal("fin", neg, mant, exp)

\* float(tok): an optional sign, then nan, inf, infinity or a decimal literal.
ParseFloat(tok) ==
    LET signed == tok # <<>> /\ tok[1] \in {"+", "-"}
        neg    == signed /\ tok[1] = "-"
        body   == IF signed THEN Tail(tok) ELSE tok
    IN  IF body = <<"n", "a", "n">> THEN FloatVal("nan", FALSE, 0, 0)
        ELSE IF body \in {<<"i", "n", "f">>,
                          <<"i", "n", "f", "i", "n", "i", "t", "y">>}
             THEN FloatVal("inf", neg, 0, 0)
        ELSE ParseDecimal(neg, body)

\* The digits of the .6f format.
Precision == 6

\* Micro with the digits beyond the sixth cut off instead of rounded.
Micro_Truncates(v) ==
    LET k == 0 - (v.exp + Precision)
    IN  IF k <= 0 THEN v.mant * Pow10(0 - k)
        ELSE IF NumDigits(v.mant) < k THEN 0
        ELSE v.mant \div Pow10(k)

\* v in units of 10^-Precision, rounded to the nearest unit (a tie to even).
Micro(v) ==
    LET k == 0 - (v.exp + Precision)
    IN  IF k <= 0 THEN v.mant * Pow10(0 - k)
        ELSE IF NumDigits(v.mant) < k THEN 0
        ELSE LET q == v.mant \div Pow10(k)
                 r == v.mant % Pow10(k)
             IN  IF 2 * r > Pow10(k) THEN q + 1
                 ELSE IF 2 * r = Pow10(k) THEN q + (q % 2)
                 ELSE q

RECURSIVE NatToStr(_)
NatToStr(n) ==
    IF n < 10 THEN <<DigitChar(n)>>
    ELSE NatToStr(n \div 10) \o <<DigitChar(n % 10)>>

\* n as exactly w digits, zeros in front.
RECURSIVE Padded(_, _)
Padded(n, w) ==
    IF w = 0 THEN <<>> ELSE Padded(n \div 10, w - 1) \o <<DigitChar(n % 10)>>

\* f"{v:.6f}"
Fmt6(v) ==
    IF v.kind = "nan" THEN <<"n", "a", "n">>
    ELSE IF v.kind = "inf"
         THEN (IF v.neg THEN <<"-">> ELSE <<>>) \o <<"i", "n", "f">>
    ELSE LET u == Micro(v)
         IN  (IF v.neg THEN <<"-">> ELSE <<>>)
             \o NatToStr(u \div Pow10(Precision))
             \o <<".">>
             \o Padded(u % Pow10(Precision), Precision)

\* f"    [{x:.6f}, {y:.6f}]"
PointLine(x, y) ==
    <<" ", " ", " ", " ", "[">> \o Fmt6(x) \o <<",", " ">> \o Fmt6(y) \o <<"]">>

\* ----------------------------------------------------------------- inputs

\* A file of the file system: whether the path names one, and its content.
File(data) == [exists |-> TRUE, data |-> data]

NoFile == [exists |-> FALSE, data |-> <<>>]

\* An ordinary path, a path with three dots in it, and the empty path, which
\* open() refuses in every mode (FileNotFoundError).
PathA == <<"a">>

PathDots == <<"d", ".", ".", ".">>

PathEmpty == <<>>

\* The paths that can name a file.
RealPaths == {PathA, PathDots}

Paths == RealPaths \cup {PathEmpty}

\* An identifier, and a text no identifier: the name is not validated.
VarNames == {<<"v">>, <<"1", " ", "2">>}

ProgName == <<"t">>

\* The command lines: sys.argv with too few, too many and exactly three
\* positional arguments.
ArgLists ==
    {<<ProgName>>, <<ProgName, PathA, <<"v">>>>,
     <<ProgName, PathA, <<"v">>, PathDots, PathA>>}
    \cup {<<ProgName, i, v, o>> : i \in Paths, v \in VarNames, o \in Paths}

\* The lines a source file is made of, without their line break: whitespace
\* only; a comment over a valid pair; an elision marker in a line that would
\* not parse; a valid pair with a comma and blanks around it; a valid pair in
\* sign, point and exponent form followed by a further token; a single token
\* that is no number; a first and a second token that are no numbers; the
\* special values.
SampleLines ==
    { <<" ">>,
      <<"#", "1", " ", "2">>,
      <<"1", " ", "2", ".", ".", ".">>,
      <<" ", "1", ",", "\t", "2", " ">>,
      <<"-", ".", "5", "e", "1", " ", "1", "9", "e", "-", "7", " ", "x">>,
      <<",", "a">>,
      <<"x", " ", "2">>,
      <<"1", " ", "x">>,
      <<"n", "a", "n", " ", "-", "i", "n", "f">> }

\* The sequences of at most n elements of S.
RECURSIVE SeqsUpTo(_, _)
SeqsUpTo(S, n) ==
    IF n = 0 THEN {<<>>}
    ELSE LET shorter == SeqsUpTo(S, n - 1)
         IN  shorter \cup {Append(q, x) : q \in shorter, x \in S}

RECURSIVE Terminated(_)
Terminated(ls) ==
    IF ls = <<>> THEN <<>> ELSE Head(ls) \o <<NL>> \o Terminated(Tail(ls))

\* The source files: at most MaxLines sample lines, each ended by a line break.
SourceFiles == {File(Terminated(ls)) : ls \in SeqsUpTo(SampleLines, MaxLines)}

\* What a path holds that is not the source: nothing, or an earlier output.
OtherFiles == {NoFile, File(<<"o", "l", "d", "\n">>)}

\* ------------------------------------------------------------------ state

VARIABLES
    sys_argv,   \* the command line, the program's name first
    fs,         \* the file system: path -> file
    pc,         \* where the process is
    status,     \* "running", or how the process ended
    stdout,     \* what the process printed
    infile,     \* txt_to_scad's parameters
    varname,
    outfile,
    flines,     \* the lines of the opened source, as iteration yields them
    lineno,     \* the index of the next line of flines
    pts,        \* the formatted points
    iolog,      \* the open() calls made, in order: <<mode, path>>
    run,        \* 1 for the first invocation, 2 for the repeated one
    fs0,        \* the file system when this invocation started
    first       \* how the first invocation ended and the file system it left

vars == <<sys_argv, fs, pc, status, stdout, infile, varname, outfile,
          flines, lineno, pts, iolog, run, fs0, first>>

UsageMessage ==
    <<"U", "s", "a", "g", "e", ":", " ", "t", "x", "t", "_", "t", "o", "_", "s", "c", "a", "d", ".", "p", "y", " ", "i", "n", "p", "u", "t", ".", "t", "x", "t", " ", "v", "a", "r", "n", "a", "m", "e", " ", "o", "u", "t", "p", "u", "t", ".", "s", "c", "a", "d", "\n">>

HeaderPrefix == <<"/", "/", " ", "A", "u", "t", "o", "-", "g", "e", "n", "e", "r", "a", "t", "e", "d", " ", "f", "r", "o", "m", " ">>

\* The process's exit status: 0 only for a conversion that returned.
ExitCode(st) == IF st = "ok" THEN 0 ELSE 1

Init ==
    /\ sys_argv \in ArgLists
    /\ fs \in [RealPaths -> SourceFiles \cup OtherFiles]
    /\ \A p \in RealPaths :
          (Len(sys_argv) < 2 \/ p # sys_argv[2]) => fs[p] \in OtherFiles
    /\ pc = "main"
    /\ status = "running"
    /\ stdout = <<>>
    /\ infile = <<>>
    /\ varname = <<>>
    /\ outfile = <<>>
    /\ flines = <<>>
    /\ lineno = 1
    /\ pts = <<>>
    /\ iolog = <<>>
    /\ run = 1
    /\ fs0 = fs
    /\ first = [status |-> "running", fs |-> fs]

\* ------------------------------------------------------------ entry point

\* WrongArgCount that only refuses too few arguments.
WrongArgCount_TooFewOnly(argv) == Len(argv) < 4

\* len(sys.argv) != 4
WrongArgCount(argv) == Len(argv) # 4

\* The arguments of the call: (sys.argv[1], sys.argv[2], sys.argv[3]), the
\* program's name being sys.argv[0].
CallArgs(argv) == <<argv[2], argv[3], argv[4]>>

\* print(usage); sys.exit(1)
MainUsage ==
    /\ pc = "main"
    /\ WrongArgCount(sys_argv)
    /\ stdout' = stdout \o UsageMessage
    /\ status' = "usage"
    /\ pc' = "exit"
    /\ UNCHANGED <<sys_argv, fs, infile, varname, outfile, flines, lineno,
                   pts, iolog, run, fs0, first>>

\* txt_to_scad(sys.argv[1], sys.argv[2], sys.argv[3]); pts = []
MainCall ==
    /\ pc = "main"
    /\ ~WrongArgCount(sys_argv)
    /\ infile' = CallArgs(sys_argv)[1]
    /\ varname' = CallArgs(sys_argv)[2]
    /\ outfile' = CallArgs(sys_argv)[3]
    /\ pts' = <<>>
    /\ pc' = "open_src"
    /\ UNCHANGED <<sys_argv, fs, status, stdout, flines, lineno, iolog, run,
                   fs0, first>>

\* ------------------------------------------------------------ txt_to_scad

\* Whether open(path) finds a file to read.
Readable(path) == path \in DOMAIN fs /\ fs[path].exists

\* Whether open(path, 'w') can create or truncate the file.
Writable(path) == path \in DOMAIN fs

\* OpenSource with the destination opened in the same with statement.
OpenSource_AlsoOpensDest ==
    /\ pc = "open_src"
    /\ Readable(infile)
    /\ Writable(outfile)
    /\ iolog' = iolog \o <<<<"r", infile>>, <<"w", outfile>>>>
    /\ flines' = IterLines(fs[infile].data)
    /\ fs' = [fs EXCEPT ![outfile] = File(<<>>)]
    /\ lineno' = 1
    /\ pc' = "loop"
    /\ UNCHANGED <<sys_argv, status, stdout, infile, varname, outfile,
                   pts, run, fs0, first>>

\* with open(infile) as f: the source exists
OpenSource ==
    /\ pc = "open_src"
    /\ Readable(infile)
    /\ iolog' = Append(iolog, <<"r", infile>>)
    /\ flines' = IterLines(fs[infile].data)
    /\ lineno' = 1
    /\ pc' = "loop"
    /\ UNCHANGED <<sys_argv, fs, status, stdout, infile, varname, outfile,
                   pts, run, fs0, first>>

\* with open(infile) as f: the source cannot be opened, OSError propagates
OpenSourceFail ==
    /\ pc = "open_src"
    /\ ~Readable(infile)
    /\ iolog' = Append(iolog, <<"r", infile>>)
    /\ status' = "OSError"
    /\ pc' = "exit"
    /\ UNCHANGED <<sys_argv, fs, stdout, infile, varname, outfile, flines,
                   lineno, pts, run, fs0, first>>

\* Skipped without the test for the elision marker.
Skipped_NoElision(line) == line = <<>> \/ StartsWith(line, <<"#">>)

\* not line or line.startswith('#') or '...' in line, of the stripped line
Skipped(line) ==
    \/ line = <<>>
    \/ StartsWith(line, <<"#">>)
    \/ Contains(line, <<".", ".", ".">>)

\* line.replace(',', ' ').split()
Parts(line) == Split(ReplaceCommas(line))

\* len(parts) < 2
TooFew(parts) == Len(parts) < 2

\* The line the loop's next iteration works on: line = line.strip()
CurLine == Strip(flines[lineno])

\* The loop body's `continue` of a blank, comment or elision line.
SkipLine ==
    /\ pc = "loop"
    /\ lineno <= Len(flines)
    /\ Skipped(CurLine)
    /\ lineno' = lineno + 1
    /\ UNCHANGED <<sys_argv, fs, pc, status, stdout, infile, varname,
                   outfile, flines, pts, iolog, run, fs0, first>>

\* ShortLine without the length test: unpacking one value into x, y raises.
ShortLine_Raises ==
    /\ pc = "loop"
    /\ lineno <= Len(flines)
    /\ ~Skipped(CurLine)
    /\ TooFew(Parts(CurLine))
    /\ lineno' = lineno + 1
    /\ status' = "ValueError"
    /\ pc' = "exit"
    /\ UNCHANGED <<sys_argv, fs, stdout, infile, varname, outfile, flines,
                   pts, iolog, run, fs0, first>>

\* The loop body's `continue` of a line of fewer than two tokens.
ShortLine ==
    /\ pc = "loop"
    /\ lineno <= Len(flines)
    /\ ~Skipped(CurLine)
    /\ TooFew(Parts(CurLine))
    /\ lineno' = lineno + 1
    /\ UNCHANGED <<sys_argv, fs, pc, status, stdout, infile, varname,
                   outfile, flines, pts, iolog, run, fs0, first>>

\* Whether map(float, parts[:2]) raises: float() refuses one of the two.
BadPair(parts) ==
    ParseFloat(parts[1]) = ValueError \/ ParseFloat(parts[2]) = ValueError

\* ParseFail with the error caught and the line skipped.
ParseFail_Skips ==
    /\ pc = "loop"
    /\ lineno <= Len(flines)
    /\ ~Skipped(CurLine)
    /\ ~TooFew(Parts(CurLine))
    /\ BadPair(Parts(CurLine))
    /\ lineno' = lineno + 1
    /\ UNCHANGED <<sys_argv, fs, pc, status, stdout, infile, varname,
                   outfile, flines, pts, iolog, run, fs0, first>>

\* x, y = map(float, parts[:2]) raises: ValueError leaves the function, the
\* with block closing the source on the way.
ParseFail ==
    /\ pc = "loop"
    /\ lineno <= Len(flines)
    /\ ~Skipped(CurLine)
    /\ ~TooFew(Parts(CurLine))
    /\ BadPair(Parts(CurLine))
    /\ lineno' = lineno + 1
    /\ status' = "ValueError"
    /\ pc' = "exit"
    /\ UNCHANGED <<sys_argv, fs, stdout, infile, varname, outfile, flines,
                   pts, iolog, run, fs0, first>>

\* Appended with the entry put in front.
Appended_InFront(ps, entry) == <<entry>> \o ps

\* pts.append(...) of the line's entry
Appended(ps, entry) == Append(ps, entry)

\* x, y = map(float, parts[:2]); pts.append(f"    [{x:.6f}, {y:.6f}]")
AppendPoint ==
    /\ pc = "loop"
    /\ lineno <= Len(flines)
    /\ ~Skipped(CurLine)
    /\ ~TooFew(Parts(CurLine))
    /\ ~BadPair(Parts(CurLine))
    /\ pts' = Appended(pts, PointLine(ParseFloat(Parts(CurLine)[1]),
                                      ParseFloat(Parts(CurLine)[2])))
    /\ lineno' = lineno + 1
    /\ UNCHANGED <<sys_argv, fs, pc, status, stdout, infile, varname,
                   outfile, flines, iolog, run, fs0, first>>

\* The for loop ends with the file; the with block closes the source.
EndOfSource ==
    /\ pc = "loop"
    /\ lineno > Len(flines)
    /\ pc' = "open_dst"
    /\ UNCHANGED <<sys_argv, fs, status, stdout, infile, varname, outfile,
                   flines, lineno, pts, iolog, run, fs0, first>>

\* OpenedForWrite in append mode: the content is kept.
OpenedForWrite_Append(file) == File(file.data)

\* What open(outfile, 'w') makes of the file at the path: created or emptied.
OpenedForWrite(file) == File(<<>>)

\* with open(outfile, 'w') as f
OpenDest ==
    /\ pc = "open_dst"
    /\ Writable(outfile)
    /\ iolog' = Append(iolog, <<"w", outfile>>)
    /\ fs' = [fs EXCEPT ![outfile] = OpenedForWrite(fs[outfile])]
    /\ pc' = "write_header"
    /\ UNCHANGED <<sys_argv, status, stdout, infile, varname, outfile,
                   flines, lineno, pts, run, fs0, first>>

\* with open(outfile, 'w') as f: the destination cannot be opened
OpenDestFail ==
    /\ pc = "open_dst"
    /\ ~Writable(outfile)
    /\ iolog' = Append(iolog, <<"w", outfile>>)
    /\ status' = "OSError"
    /\ pc' = "exit"
    /\ UNCHANGED <<sys_argv, fs, stdout, infile, varname, outfile, flines,
                   lineno, pts, run, fs0, first>>

\* f.write(text): the text is added at the end of the destination.
FWrite(text) ==
    fs' = [fs EXCEPT ![outfile] = File(fs[outfile].data \o text)]

\* f.write(f"// Auto-generated from {infile}\n")
WriteHeader ==
    /\ pc = "write_header"
    /\ FWrite(HeaderPrefix \o infile \o <<NL>>)
    /\ pc' = "write_open"
    /\ UNCHANGED <<sys_argv, status, stdout, infile, varname, outfile,
                   flines, lineno, pts, iolog, run, fs0, first>>

\* f.write(f"{varname} = [\n")
WriteOpen ==
    /\ pc = "write_open"
    /\ FWrite(varname \o <<" ", "=", " ", "[", NL>>)
    /\ pc' = "write_body"
    /\ UNCHANGED <<sys_argv, status, stdout, infile, varname, outfile,
                   flines, lineno, pts, iolog, run, fs0, first>>

\* Body with the separator after every entry, the last one too.
RECURSIVE Body_TrailingComma(_)
Body_TrailingComma(ps) ==
    IF ps = <<>> THEN <<>>
    ELSE Head(ps) \o <<",", NL>> \o Body_TrailingComma(Tail(ps))

\* ",\n".join(pts)
Body(ps) == Join(<<",", NL>>, ps)

\* f.write(",\n".join(pts))
WriteBody ==
    /\ pc = "write_body"
    /\ FWrite(Body(pts))
    /\ pc' = "write_close"
    /\ UNCHANGED <<sys_argv, status, stdout, infile, varname, outfile,
                   flines, lineno, pts, iolog, run, fs0, first>>

\* Closing without the line break in front of the bracket.
Closing_NoLineBreak == <<"]", ";", NL>>

\* "\n];\n"
Closing == <<NL, "]", ";", NL>>

\* f.write("\n];\n"); the with block closes the destination, the function
\* returns and the process ends with status 0.
WriteClose ==
    /\ pc = "write_close"
    /\ FWrite(Closing)
    /\ status' = "ok"
    /\ pc' = "exit"
    /\ UNCHANGED <<sys_argv, stdout, infile, varname, outfile, flines,
                   lineno, pts, iolog, run, fs0, first>>

\* The same command line is run a second time, on the file system the first
\* invocation left: a new process, with nothing of the first one's memory.
RunAgain ==
    /\ pc = "exit"
    /\ run = 1
    /\ run' = 2
    /\ first' = [status |-> status, fs |-> fs]
    /\ fs0' = fs
    /\ pc' = "main"
    /\ status' = "running"
    /\ stdout' = <<>>
    /\ infile' = <<>>
    /\ varname' = <<>>
    /\ outfile' = <<>>
    /\ flines' = <<>>
    /\ lineno' = 1
    /\ pts' = <<>>
    /\ iolog' = <<>>
    /\ UNCHANGED <<sys_argv, fs>>

Next ==
    \/ MainUsage
    \/ MainCall
    \/ OpenSource
    \/ OpenSourceFail
    \/ SkipLine
    \/ ShortLine
    \/ ParseFail
    \/ AppendPoint
    \/ EndOfSource
    \/ OpenDest
    \/ OpenDestFail
    \/ WriteHeader
    \/ WriteOpen
    \/ WriteBody
    \/ WriteClose
    \/ RunAgain

Spec == Init /\ [][Next]_vars

\* ------------------------------------------------- the claims' vocabulary

Elision == <<".", ".", ".">>

\* A line as the input format describes it, read off the raw line: blank,
\* a comment, or one with the elision marker.
IsIgnoredLine(raw) ==
    \/ \A i \in 1..Len(raw) : raw[i] \in Whitespace
    \/ \E i \in 1..Len(raw) :
          /\ raw[i] = "#"
          /\ \A j \in 1..(i - 1) : raw[j] \in Whitespace
    \/ \E i \in 1..(Len(raw) - 2) :
          raw[i] = "." /\ raw[i + 1] = "." /\ raw[i + 2] = "."

Separators == Whitespace \cup {","}

\* The number of tokens of a raw line: the places where a token starts.
TokenCount(raw) ==
    Cardinality({i \in 1..Len(raw) :
                    /\ raw[i] \notin Separators
                    /\ (i = 1 \/ raw[i - 1] \in Separators)})

\* A kept line: one that is not ignored and has its two tokens.
IsKeptLine(raw) == ~IsIgnoredLine(raw) /\ TokenCount(raw) >= 2

\* The j-th token of a raw line.
Token(raw, j) == Parts(Strip(raw))[j]

\* The loop is about to work on a line.
AtLine == pc = "loop" /\ lineno <= Len(flines)

\* The run reached the end of the source and has not failed since.
PastSource == pc \in {"open_dst", "write_header", "write_open", "write_body",
                      "write_close"} \/ status = "ok"

SourceOpenFailed == status = "OSError" /\ Len(iolog) = 1

DestOpened == \E i \in 1..Len(iolog) : iolog[i][1] = "w"

\* The first two lines of every output.
Preamble == HeaderPrefix \o infile \o <<NL>> \o varname \o <<" ", "=", " ", "[", NL>>

\* ------------------------------------------------------------------ claims

\* C1: a kept line whose first or second token float() refuses ends the run
\* with ValueError at that very line: no later line is worked on, the run does
\* not succeed and, whatever lines come before or after it, a successful run
\* has read no such line.
C1_MalformedNumberAborts ==
    /\ \A i \in 1..Len(flines) :
          ( /\ i < lineno
            /\ IsKeptLine(flines[i])
            /\ \E j \in {1, 2} : ParseFloat(Token(flines[i], j)).kind = "ValueError" )
          => (status = "ValueError" /\ pc = "exit" /\ lineno = i + 1)
    /\ status = "ValueError" => (ExitCode(status) # 0 /\ ~DestOpened)

\* C1 witness: the run failed on a malformed first line that a valid line
\* follows.
C1_Witness ==
    /\ status = "ValueError"
    /\ Len(flines) = 2
    /\ lineno = 2
    /\ IsKeptLine(flines[2])
    /\ \A j \in {1, 2} : ParseFloat(Token(flines[2], j)).kind = "fin"

\* C2: the destination is opened only after the source was opened and all its
\* lines were worked on without error; the file system changes only after
\* that; and a run that ended in a source-access error or in ValueError left
\* the file system as it found it.
C2_DestinationAfterSource ==
    /\ DestOpened =>
          /\ iolog = <<<<"r", infile>>, <<"w", outfile>>>>
          /\ lineno = Len(flines) + 1
          /\ status # "ValueError"
    /\ fs # fs0 => DestOpened
    /\ (status = "ValueError" \/ SourceOpenFailed) => (pc = "exit" /\ fs = fs0)

\* C2 witness: a run that ended in ValueError with an earlier file at the
\* destination path.
C2_Witness ==
    /\ status = "ValueError"
    /\ outfile \in RealPaths
    /\ outfile # infile
    /\ fs[outfile].exists
    /\ fs[outfile].data # <<>>

\* C3: a step of the loop on an ignored line (blank, comment, elision marker)
\* adds no entry, raises nothing, writes nothing and goes on to the next line.
C3_IgnoredLinesAreInert ==
    [][ (AtLine /\ IsIgnoredLine(flines[lineno]))
        => ( /\ pts' = pts
             /\ status' = status
             /\ pc' = "loop"
             /\ lineno' = lineno + 1
             /\ fs' = fs ) ]_vars

\* C3 witness: the loop went past a first line that holds the elision marker
\* and whose second token is no number.
C3_Witness ==
    /\ pc = "loop"
    /\ lineno = 2
    /\ status = "running"
    /\ pts = <<>>
    /\ Contains(flines[1], Elision)
    /\ TokenCount(flines[1]) >= 2
    /\ ParseFloat(Token(flines[1], 2)).kind = "ValueError"

\* C4: a step of the loop on a line that is not ignored and has fewer than two
\* tokens adds no entry, raises nothing and goes on to the next line.
C4_ShortLinesAreInert ==
    [][ (AtLine /\ ~IsIgnoredLine(flines[lineno]) /\ TokenCount(flines[lineno]) < 2)
        => ( /\ pts' = pts
             /\ status' = status
             /\ pc' = "loop"
             /\ lineno' = lineno + 1
             /\ fs' = fs ) ]_vars

\* C4 witness: the loop went past a first line whose only token is no number.
C4_Witness ==
    /\ pc = "loop"
    /\ lineno = 2
    /\ status = "running"
    /\ ~IsIgnoredLine(flines[1])
    /\ TokenCount(flines[1]) = 1
    /\ ParseFloat(Token(flines[1], 1)).kind = "ValueError"

\* The entry of a kept line: its first two tokens, x then y.
EntryOf(raw) == PointLine(ParseFloat(Token(raw, 1)), ParseFloat(Token(raw, 2)))

\* A pair-line of the output without the separator that may follow it.
PairLineOf(outline) ==
    LET s == RStrip(outline)
    IN  IF s # <<>> /\ s[Len(s)] = "," THEN SubSeq(s, 1, Len(s) - 1) ELSE s

\* C5: while a run has not failed, the entries are those of the kept lines
\* worked on so far, one each, in file order, built from the line's first two
\* tokens; and a successful run's output holds exactly these entries, in that
\* order, between its two opening lines and its closing line.
C5_EntriesFollowKeptLines ==
    /\ (pc # "main" /\ status \in {"running", "ok"}) =>
          LET kept == SelectSeq(SubSeq(flines, 1, lineno - 1), IsKeptLine)
          IN  /\ Len(pts) = Len(kept)
              /\ \A i \in 1..Len(kept) : pts[i] = EntryOf(kept[i])
    /\ (status = "ok" /\ pts # <<>>) =>
          LET out == IterLines(fs[outfile].data)
          IN  /\ Len(out) = Len(pts) + 3
              /\ \A i \in 1..Len(pts) : PairLineOf(out[i + 2]) = pts[i]

\* C5 witness: a successful run over two kept lines with different entries,
\* one of them with a third token.
C5_Witness ==
    /\ status = "ok"
    /\ Len(pts) = 2
    /\ pts[1] # pts[2]
    /\ TokenCount(flines[1]) = 3

\* The pair-lines of the array body: each but the last followed by a comma
\* and a line break, the last by a line break alone.
RECURSIVE PairLines(_)
PairLines(ps) ==
    IF Len(ps) = 1 THEN ps[1] \o <<NL>>
    ELSE ps[1] \o <<",", NL>> \o PairLines(Tail(ps))

\* C6: a successful run with at least one entry leaves as its output the
\* comment line, the line that opens the array, the pair-lines, each indented
\* by four blanks and all but the last followed by a comma, and the line "];".
C6_OutputLayout ==
    (status = "ok" /\ Len(pts) >= 1) =>
        /\ fs[outfile].data = Preamble \o PairLines(pts) \o <<"]", ";", NL>>
        /\ \A i \in 1..Len(pts) : StartsWith(pts[i], <<" ", " ", " ", " ", "[">>)

\* C6 witness: a successful run with two entries.
C6_Witness == status = "ok" /\ Len(pts) = 2 /\ run = 1

\* C7: a run whose source was opened and holds no kept line ends well whenever
\* the destination can be opened, and its output is then the two opening
\* lines, an empty line and the line "];".
C7_EmptyArray ==
    ( /\ pc = "exit"
      /\ Len(iolog) >= 1
      /\ ~SourceOpenFailed
      /\ \A i \in 1..Len(flines) : ~IsKeptLine(flines[i]) )
    => /\ pts = <<>>
       /\ Writable(outfile) =>
             /\ status = "ok"
             /\ fs[outfile].data = Preamble \o <<NL, "]", ";", NL>>

\* C7 witness: a successful run over two lines neither of which is kept.
C7_Witness ==
    /\ status = "ok"
    /\ Len(flines) = 2
    /\ pts = <<>>
    /\ fs[outfile].data = Preamble \o <<NL, "]", ";", NL>>

\* C8: with any number of positional arguments but three the process only
\* prints the usage message and ends with a non-zero status, opening and
\* changing no file; with three it prints nothing and calls the conversion
\* with them as input path, variable name and output path.
C8_ArgumentCount ==
    /\ Len(sys_argv) # 4 =>
          /\ pc \in {"main", "exit"}
          /\ iolog = <<>>
          /\ fs = fs0
          /\ pc = "exit" =>
                (status = "usage" /\ stdout = UsageMessage /\ ExitCode(status) # 0)
    /\ (Len(sys_argv) = 4 /\ pc # "main") =>
          /\ status # "usage"
          /\ stdout = <<>>
          /\ infile = sys_argv[2]
          /\ varname = sys_argv[3]
          /\ outfile = sys_argv[4]

\* C8 witness: the process ended on the usage message, given four arguments.
C8_Witness == pc = "exit" /\ status = "usage" /\ Len(sys_argv) = 5

\* The two components of an entry, as written.
Components(entry) == Parts(SubSeq(entry, 6, Len(entry) - 1))

\* A component with a sign or none, digits, a point and exactly six digits.
HasSixDecimals(c) ==
    LET p    == PosOf(c, ".")
        ipart == IF c # <<>> /\ c[1] = "-" THEN SubSeq(c, 2, p - 1)
                 ELSE SubSeq(c, 1, p - 1)
    IN  /\ p > 0
        /\ Len(c) - p = Precision
        /\ IsDigits(Drop(c, p + 1))
        /\ ipart # <<>>
        /\ IsDigits(ipart)

\* Twice the distance between a written component and the value it stands
\* for, in units of 10^-(6+k), is at most one unit of 10^-6: the component is
\* the value rounded to six decimals.
IsRounded(v, c) ==
    LET w == ParseFloat(c)
        k == IF v.exp + Precision < 0 THEN 0 - (v.exp + Precision) ELSE 0
        exact == IF k = 0 THEN v.mant * Pow10(v.exp + Precision) ELSE v.mant
        shown == w.mant * Pow10(w.exp + Precision + k)
        d == IF exact >= shown THEN exact - shown ELSE shown - exact
    IN  /\ w.kind = "fin"
        /\ w.neg = v.neg
        /\ 2 * d <= Pow10(k)

\* What the claim as amended says of a parsed value v and its component c.
EmittedAs(v, c) ==
    CASE v.kind = "fin" -> HasSixDecimals(c) /\ IsRounded(v, c)
      [] v.kind = "nan" -> c = <<"n", "a", "n">>
      [] v.kind = "inf" -> c = (IF v.neg THEN <<"-">> ELSE <<>>) \o <<"i", "n", "f">>
      [] OTHER -> FALSE

\* C9, the claim as stated: every component of every entry has exactly six
\* digits after a decimal point.
C9_AlwaysSixDecimals ==
    \A i \in 1..Len(pts) :
        \A j \in {1, 2} : HasSixDecimals(Components(pts[i])[j])

\* C9, as amended: a step that adds an entry writes each of the line's first
\* two tokens, when it parses to a finite value, as that value rounded to
\* exactly six digits after the point, and when it parses to NaN or to an
\* infinity as nan, inf or -inf, with no point and no digit.
C9_SixDecimalsWhenFinite ==
    [][ (AtLine /\ Len(pts') = Len(pts) + 1)
        => \A j \in {1, 2} :
              EmittedAs(ParseFloat(Token(flines[lineno], j)),
                        Components(pts'[Len(pts')])[j]) ]_vars

\* C9 witness: an entry whose components were a signed exponent form and a
\* value with a seventh decimal, written -5.000000 and 0.000002.
C9_Witness ==
    \E i \in 1..Len(pts) :
        pts[i] = <<" ", " ", " ", " ", "[">>
                 \o <<"-", "5", ".", "0", "0", "0", "0", "0", "0">> \o <<",", " ">>
                 \o <<"0", ".", "0", "0", "0", "0", "0", "2">> \o <<"]">>

\* C10, the claim as stated: whatever the three arguments, the destination
\* holds the same bytes after the second run as after the first.
C10_AlwaysIdentical ==
    (run = 2 /\ pc = "exit" /\ Len(sys_argv) = 4 /\ sys_argv[4] \in RealPaths)
    => fs[sys_argv[4]] = first.fs[sys_argv[4]]

\* C10, as amended: when the destination path is not the source path, the
\* second run ends as the first did and leaves every file as the first left
\* it.
C10_IdenticalWhenDistinctPaths ==
    (run = 2 /\ pc = "exit" /\ (Len(sys_argv) = 4 => sys_argv[2] # sys_argv[4]))
    => (status = first.status /\ fs = first.fs)

\* C10 witness: a second successful run with entries, to a destination that
\* is not the source.
C10_Witness ==
    /\ run = 2
    /\ status = "ok"
    /\ pts # <<>>
    /\ infile # outfile
    /\ fs = first.fs

====
